---- MODULE Spec2Model ----
(***************************************************************************)
(* State-machine model of clean-icloud.py: main() parses the command line, *)
(* loads the configuration, logs in (with an optional second-factor        *)
(* challenge), parses --date, and then runs download_photos or             *)
(* delete_photos over the items yielded by api.photos.all.                 *)
(*                                                                         *)
(* Strings the program inspects character by character (the --date         *)
(* argument, the confirmation response) are sequences of one-character     *)
(* strings.  Calendar dates are triples <<year, month, day>>.              *)
(***************************************************************************)
EXTENDS Integers, Sequences, FiniteSets, TLC

\* ------------------------------------------------------------------ bounds
MaxItems == 2     \* longest remote library that is enumerated
MaxRuns == 2      \* number of successive invocations of the script

\* ------------------------------------------------------- character helpers
Digits == <<"0", "1", "2", "3", "4", "5", "6", "7", "8", "9">>

IsDigit(c) == \E i \in 1..Len(Digits) : Digits[i] = c

DigitVal(c) == (CHOOSE i \in 1..Len(Digits) : Digits[i] = c) - 1

RECURSIVE NumVal(_)
NumVal(s) == IF s = <<>> THEN 0
             ELSE NumVal(SubSeq(s, 1, Len(s) - 1)) * Len(Digits) + DigitVal(s[Len(s)])

UpperAlpha == <<"A", "B", "C", "D", "E", "F", "G", "H", "I", "J", "K", "L", "M",
                "N", "O", "P", "Q", "R", "S", "T", "U", "V", "W", "X", "Y", "Z">>

LowerAlpha == <<"a", "b", "c", "d", "e", "f", "g", "h", "i", "j", "k", "l", "m",
                "n", "o", "p", "q", "r", "s", "t", "u", "v", "w", "x", "y", "z">>

LowerChar(c) == IF \E i \in 1..Len(UpperAlpha) : UpperAlpha[i] = c
                THEN LowerAlpha[CHOOSE i \in 1..Len(UpperAlpha) : UpperAlpha[i] = c]
                ELSE c

\* str.lower(): every cased character is replaced by its lowercase form,
\* nothing is stripped.
Lower(s) == [i \in 1..Len(s) |-> LowerChar(s[i])]

YesToken == <<"y", "e", "s">>

\* a gate that looks at the first letter only
DeclinedFirstLetter(confirm) == confirm = <<>> \/ LowerChar(confirm[1]) # "y"

\* confirm.lower() != "yes"
Declined(confirm) == Lower(confirm) # YesToken

\* ------------------------------------------------------------ date parsing
IsLeap(y) == (y % 4 = 0 /\ y % 100 # 0) \/ y % 400 = 0

DaysInMonth(y, m) == IF m = 2 THEN (IF IsLeap(y) THEN 29 ELSE 28)
                     ELSE IF m \in {4, 6, 9, 11} THEN 30 ELSE 31

\* %Y : \d\d\d\d
IsYearToken(t) == Len(t) = 4 /\ \A i \in 1..4 : IsDigit(t[i])

\* %m : 1[0-2] | 0[1-9] | [1-9]
IsMonthToken(t) ==
    \/ Len(t) = 2 /\ t[1] = "1" /\ t[2] \in {"0", "1", "2"}
    \/ Len(t) = 2 /\ t[1] = "0" /\ IsDigit(t[2]) /\ t[2] # "0"
    \/ Len(t) = 1 /\ IsDigit(t[1]) /\ t[1] # "0"

\* %d : 3[01] | [12]\d | 0[1-9] | [1-9] | " "[1-9]
IsDayToken(t) ==
    \/ Len(t) = 2 /\ t[1] = "3" /\ t[2] \in {"0", "1"}
    \/ Len(t) = 2 /\ t[1] \in {"1", "2"} /\ IsDigit(t[2])
    \/ Len(t) = 2 /\ t[1] \in {"0", " "} /\ IsDigit(t[2]) /\ t[2] # "0"
    \/ Len(t) = 1 /\ IsDigit(t[1]) /\ t[1] # "0"

Strip(t) == IF t # <<>> /\ t[1] = " " THEN Tail(t) ELSE t

\* The positions j of the second "-" for which the whole string is
\* <year>-<month>-<day>.
DateSplits(s) ==
    {j \in 7..(Len(s) - 1) :
        /\ IsYearToken(SubSeq(s, 1, 4))
        /\ s[5] = "-"
        /\ s[j] = "-"
        /\ IsMonthToken(SubSeq(s, 6, j - 1))
        /\ IsDayToken(SubSeq(s, j + 1, Len(s)))}

NoDate == <<0, 0, 0>>

\* parse_date with the validity test dropped: whatever does not parse is
\* read as NoDate and accepted
strptime_lenient(s) == [ok |-> TRUE, date |-> NoDate]

\* datetime.datetime.strptime(s, "%Y-%m-%d").date(); ok = FALSE is ValueError
strptime(s) ==
    IF DateSplits(s) = {} THEN [ok |-> FALSE, date |-> NoDate]
    ELSE LET j == CHOOSE k \in DateSplits(s) : TRUE
             y == NumVal(SubSeq(s, 1, 4))
             m == NumVal(SubSeq(s, 6, j - 1))
             d == NumVal(Strip(SubSeq(s, j + 1, Len(s))))
         IN  IF y >= 1 /\ d <= DaysInMonth(y, m)
             THEN [ok |-> TRUE, date |-> <<y, m, d>>]
             ELSE [ok |-> FALSE, date |-> NoDate]

\* date.__le__ : chronological order on <<year, month, day>>
DateLT(a, b) ==
    \/ a[1] < b[1]
    \/ a[1] = b[1] /\ a[2] < b[2]
    \/ a[1] = b[1] /\ a[2] = b[2] /\ a[3] < b[3]

DateLE(a, b) == DateLT(a, b) \/ a = b

\* ------------------------------------------------------------- input sets
\* --date arguments: two well-formed dates, a day that does not exist,
\* a wrong separator
ValidDateArgs ==
    { <<"2", "0", "2", "2", "-", "0", "1", "-", "0", "1">>,
      <<"2", "0", "2", "1", "-", "1", "2", "-", "3", "1">> }

InvalidDateArgs ==
    { <<"2", "0", "2", "2", "-", "0", "2", "-", "3", "0">>,
      <<"2", "0", "2", "2", "/", "0", "1", "/", "0", "1">> }

DateArgs == ValidDateArgs \cup InvalidDateArgs

Commands == {"none", "download", "delete"}

\* photo.created: a datetime (date and hour), absent, or unparsable
Timestamps ==
    { [kind |-> "datetime", date |-> <<2021, 12, 31>>, hour |-> 23],
      [kind |-> "datetime", date |-> <<2022, 1, 1>>, hour |-> 23],
      [kind |-> "datetime", date |-> <<2022, 1, 2>>, hour |-> 0] }

Unreadable ==
    { [kind |-> "missing", date |-> NoDate, hour |-> 0],
      [kind |-> "malformed", date |-> NoDate, hour |-> 0] }

Filenames == {"a.jpg", "b.jpg"}

RemoteItems == [filename : Filenames, created : Timestamps \cup Unreadable]

RECURSIVE SeqsUpTo(_, _)
SeqsUpTo(S, n) ==
    IF n = 0 THEN {<<>>}
    ELSE LET shorter == SeqsUpTo(S, n - 1)
         IN  shorter \cup {Append(s, x) : s \in {t \in shorter : Len(t) = n - 1}, x \in S}

Libraries == SeqsUpTo(RemoteItems, MaxItems)

\* contents of the file named by --config after yaml.safe_load;
\* (readable = FALSE) stands for a file that cannot be opened or parsed
ConfigFiles ==
    { [readable |-> FALSE, icloud |-> [username |-> "", password |-> ""]],
      [readable |-> TRUE, icloud |-> [username |-> "", password |-> ""]],
      [readable |-> TRUE, icloud |-> [username |-> "user", password |-> ""]],
      [readable |-> TRUE, icloud |-> [username |-> "user", password |-> "secret"]] }

NoConfig == [readable |-> FALSE, icloud |-> [username |-> "", password |-> ""]]

\* what PyiCloudService(username, password) produces: a failed login or a
\* session with its two challenge flags (requires_2fa implies requires_2sa)
Sessions ==
    { [connected |-> TRUE, requires_2fa |-> FALSE, requires_2sa |-> FALSE],
      [connected |-> TRUE, requires_2fa |-> FALSE, requires_2sa |-> TRUE],
      [connected |-> TRUE, requires_2fa |-> TRUE, requires_2sa |-> TRUE] }

Trusted == [connected |-> TRUE, requires_2fa |-> FALSE, requires_2sa |-> FALSE]

NoSession == [connected |-> FALSE, requires_2fa |-> FALSE, requires_2sa |-> FALSE]

\* answers typed at the confirmation prompt
Responses ==
    { <<"y", "e", "s">>, <<"Y", "e", "S">>, <<"n", "o">>, <<>>, <<"y">>,
      <<"y", "e", "s", " ">> }

DownloadOutcomes == {"ok", "fetch_failed", "write_failed"}

\* ------------------------------------------------------------------- state
VARIABLES
    command,          \* args.command
    dateArg,          \* args.date
    library,          \* the items api.photos.all yields, in order
    pc,               \* position of the process
    exitCode,         \* process exit status, -1 while running
    out,              \* summary and error lines printed in this run
    config,           \* main's config
    api,              \* the PyiCloudService handle, NoSession before login
    target_date,      \* main's target_date
    pulled,           \* number of items api.photos.all has yielded in this run
    photos_to_delete, \* delete_photos: indexes of the collected items
    total,            \* delete_photos: total
    count,            \* download_photos / delete_photos: count
    k,                \* delete_photos: position in photos_to_delete
    confirm,          \* delete_photos: the operator's response
    dirExists,        \* os.path.exists(output_dir)
    files,            \* names of the files in output_dir
    loginCalls,       \* PyiCloudService constructions in this run
    codePrompts,      \* second-factor prompts in this run
    prompts,          \* confirmation prompts in this run
    log,              \* download()/delete() calls of this run, with outcome
    run,              \* number of the current invocation
    prevLog,          \* log of the previous invocation
    prevFiles         \* files when the previous invocation ended

vars == <<command, dateArg, library, pc, exitCode, out, config, api,
          target_date, pulled, photos_to_delete, total, count, k, confirm,
          dirExists, files, loginCalls, codePrompts, prompts, log, run,
          prevLog, prevFiles>>

args == <<command, dateArg, library>>
locals == <<config, api, target_date, pulled, photos_to_delete, total, count, k, confirm>>
disk == <<dirExists, files>>
history == <<run, prevLog, prevFiles>>

NoResponse == <<"-">>

Msg(m, n) == [msg |-> m, n |-> n]

Init ==
    /\ command \in Commands
    /\ dateArg \in DateArgs
    /\ library \in Libraries
    /\ pc = "main"
    /\ exitCode = -1
    /\ out = <<>>
    /\ config = NoConfig
    /\ api = NoSession
    /\ target_date = NoDate
    /\ pulled = 0
    /\ photos_to_delete = <<>>
    /\ total = 0
    /\ count = 0
    /\ k = 0
    /\ confirm = NoResponse
    /\ dirExists = FALSE
    /\ files = {}
    /\ loginCalls = 0
    /\ codePrompts = 0
    /\ prompts = 0
    /\ log = <<>>
    /\ run = 1
    /\ prevLog = <<>>
    /\ prevFiles = {}

\* sys.exit(code) after printing line m
Exit(code, m) ==
    /\ pc' = "exit"
    /\ exitCode' = code
    /\ out' = Append(out, m)

\* ------------------------------------------------------------------ main
\* parser.parse_args(); no sub-command prints the help and exits 1
ParseArgs ==
    /\ pc = "main"
    /\ IF command = "none"
       THEN Exit(1, Msg("usage", 0))
       ELSE pc' = "load_config" /\ UNCHANGED <<exitCode, out>>
    /\ UNCHANGED <<args, locals, disk, history, loginCalls, codePrompts, prompts, log>>

\* load_config(args.config)
LoadConfig ==
    /\ pc = "load_config"
    /\ \E cfg \in ConfigFiles :
          IF ~cfg.readable
          THEN Exit(1, Msg("Error loading config file", 0)) /\ UNCHANGED config
          ELSE config' = cfg /\ pc' = "login" /\ UNCHANGED <<exitCode, out>>
    /\ UNCHANGED <<args, api, target_date, pulled, photos_to_delete, total, count, k,
                   confirm, disk, history, loginCalls, codePrompts, prompts, log>>

\* login(config) up to the point where it either returns or blocks on the
\* second-factor prompt
LoginConnect ==
    /\ pc = "login"
    /\ IF config.icloud.username = "" \/ config.icloud.password = ""
       THEN /\ Exit(1, Msg("Username and/or password not provided", 0))
            /\ UNCHANGED <<api, loginCalls, codePrompts>>
       ELSE /\ loginCalls' = loginCalls + 1
            /\ \/ /\ Exit(1, Msg("Traceback: login failed", 0))
                  /\ UNCHANGED <<api, codePrompts>>
               \/ \E s \in Sessions :
                     /\ api' = s
                     /\ IF s.requires_2fa \/ s.requires_2sa
                        THEN pc' = "login_code" /\ codePrompts' = codePrompts + 1
                        ELSE pc' = "parse_date" /\ UNCHANGED codePrompts
                     /\ UNCHANGED <<exitCode, out>>
    /\ UNCHANGED <<args, config, target_date, pulled, photos_to_delete, total, count, k,
                   confirm, disk, history, prompts, log>>

\* login with the exit after a rejected code left out
LoginCodeNoExit ==
    /\ pc = "login_code"
    /\ \E valid \in BOOLEAN :
          /\ api' = IF valid THEN Trusted ELSE api
          /\ pc' = "parse_date"
          /\ UNCHANGED <<exitCode, out>>
    /\ UNCHANGED <<args, config, target_date, pulled, photos_to_delete, total, count, k,
                   confirm, disk, history, loginCalls, codePrompts, prompts, log>>

\* login(config) from the entered code on: validate_2fa_code if requires_2fa,
\* else validate_2sa_code; a rejected code exits 1, an accepted one leaves the
\* session trusted
LoginCode ==
    /\ pc = "login_code"
    /\ \E valid \in BOOLEAN :
          IF ~valid
          THEN /\ Exit(1, Msg(IF api.requires_2fa THEN "Failed to verify the 2FA code"
                                                  ELSE "Failed to verify the 2SA code", 0))
               /\ UNCHANGED api
          ELSE /\ api' = Trusted
               /\ pc' = "parse_date"
               /\ UNCHANGED <<exitCode, out>>
    /\ UNCHANGED <<args, config, target_date, pulled, photos_to_delete, total, count, k,
                   confirm, disk, history, loginCalls, codePrompts, prompts, log>>

\* target_date = parse_date(args.date), then the dispatch on args.command
ParseDate ==
    /\ pc = "parse_date"
    /\ LET r == strptime(dateArg)
       IN  IF ~r.ok
           THEN Exit(1, Msg("Invalid date format", 0)) /\ UNCHANGED target_date
           ELSE /\ target_date' = r.date
                /\ pc' = IF command = "download" THEN "download_photos" ELSE "delete_photos"
                /\ UNCHANGED <<exitCode, out>>
    /\ UNCHANGED <<args, config, api, pulled, photos_to_delete, total, count, k,
                   confirm, disk, history, loginCalls, codePrompts, prompts, log>>

\* --------------------------------------------------------- item selection
\* photo.created.date(): the calendar date of a datetime; anything else raises
CreatedDate(created) == [ok |-> created.kind = "datetime", date |-> created.date]

\* the filter with the boundary left out (photo_date < target_date)
SelectedStrict(photo, cutoff) ==
    LET r == CreatedDate(photo.created)
    IN  r.ok /\ DateLT(r.date, cutoff)

\* the loop head shared by both commands: an unreadable date skips the item
\* (continue), otherwise the test is photo_date <= target_date
Selected(photo, cutoff) ==
    LET r == CreatedDate(photo.created)
    IN  r.ok /\ DateLE(r.date, cutoff)

\* count += 1 placed before the action instead of after it
CountedAlways(n, outcome) == n + 1

\* count += 1 is the last statement of the try block
Counted(n, outcome) == IF outcome = "ok" THEN n + 1 ELSE n

\* --------------------------------------------------------- download_photos
\* os.makedirs without the os.path.exists test: FileExistsError on a
\* directory that is already there
DownloadPrepareAlways ==
    /\ pc = "download_photos"
    /\ IF dirExists
       THEN Exit(1, Msg("Traceback: FileExistsError", 0)) /\ UNCHANGED <<dirExists, count, pulled>>
       ELSE /\ dirExists' = TRUE
            /\ count' = 0
            /\ pulled' = 0
            /\ pc' = "download_loop"
            /\ UNCHANGED <<exitCode, out>>
    /\ UNCHANGED <<args, config, api, target_date, photos_to_delete, total, k, confirm,
                   files, history, loginCalls, codePrompts, prompts, log>>

\* if not os.path.exists(output_dir): os.makedirs(output_dir); count = 0
DownloadPrepare ==
    /\ pc = "download_photos"
    /\ dirExists' = IF ~dirExists THEN TRUE ELSE dirExists
    /\ count' = 0
    /\ pulled' = 0
    /\ pc' = "download_loop"
    /\ UNCHANGED <<args, exitCode, out, config, api, target_date, photos_to_delete, total,
                   k, confirm, files, history, loginCalls, codePrompts, prompts, log>>

\* --output-dir (its default)
OutputDir == "downloads"

\* os.path.join(output_dir, photo.filename)
FilePath(dir, name) == <<dir, name>>

\* one iteration of `for photo in api.photos.all` in download_photos
DownloadStep ==
    /\ pc = "download_loop"
    /\ pulled < Len(library)
    /\ pulled' = pulled + 1
    /\ LET i == pulled + 1
           photo == library[i]
       IN  IF Selected(photo, target_date)
           THEN \E outcome \in DownloadOutcomes :
                   /\ log' = Append(log, [item |-> i, outcome |-> outcome])
                   /\ files' = IF outcome = "fetch_failed" \/ ~dirExists THEN files
                               ELSE files \cup {FilePath(OutputDir, photo.filename)}
                   /\ count' = Counted(count, outcome)
           ELSE UNCHANGED <<log, files, count>>
    /\ UNCHANGED <<args, pc, exitCode, out, config, api, target_date, photos_to_delete,
                   total, k, confirm, dirExists, history, loginCalls, codePrompts, prompts>>

\* the generator is exhausted: print the summary, return to main, exit 0
DownloadEnd ==
    /\ pc = "download_loop"
    /\ pulled = Len(library)
    /\ Exit(0, Msg("Downloaded", count))
    /\ UNCHANGED <<args, locals, disk, history, loginCalls, codePrompts, prompts, log>>

\* ----------------------------------------------------------- delete_photos
DeleteBegin ==
    /\ pc = "delete_photos"
    /\ photos_to_delete' = <<>>
    /\ pulled' = 0
    /\ pc' = "delete_scan"
    /\ UNCHANGED <<args, exitCode, out, config, api, target_date, total, count, k, confirm,
                   disk, history, loginCalls, codePrompts, prompts, log>>

\* one iteration of `for photo in api.photos.all` in delete_photos
DeleteScanStep ==
    /\ pc = "delete_scan"
    /\ pulled < Len(library)
    /\ pulled' = pulled + 1
    /\ photos_to_delete' = IF Selected(library[pulled + 1], target_date)
                           THEN Append(photos_to_delete, pulled + 1)
                           ELSE photos_to_delete
    /\ UNCHANGED <<args, pc, exitCode, out, config, api, target_date, total, count, k,
                   confirm, disk, history, loginCalls, codePrompts, prompts, log>>

\* total = len(photos_to_delete); print; input(...) shows the prompt and blocks.
\* ready: the condition under which the for loop is left; ask: whether input()
\* is reached.  The code leaves the loop on exhaustion and always asks.
ScanEnd(ready, ask) ==
    /\ pc = "delete_scan"
    /\ ready
    /\ total' = Len(photos_to_delete)
    /\ out' = Append(out, Msg("Found", Len(photos_to_delete)))
    /\ IF ask
       THEN pc' = "confirm" /\ prompts' = prompts + 1 /\ UNCHANGED exitCode
       ELSE pc' = "exit" /\ exitCode' = 0 /\ UNCHANGED prompts
    /\ UNCHANGED <<args, config, api, target_date, pulled, photos_to_delete, count, k,
                   confirm, disk, history, loginCalls, codePrompts, log>>

\* the count taken before the generator is exhausted
DeleteScanEndEarly == ScanEnd(pulled >= 1 \/ Len(library) = 0, TRUE)

\* the prompt skipped when nothing matched
DeleteScanEndSkipEmpty == ScanEnd(pulled = Len(library), Len(photos_to_delete) > 0)

DeleteScanEnd == ScanEnd(pulled = Len(library), TRUE)

\* the operator answers; anything but "yes" cancels
Answer(status) ==
    /\ pc = "confirm"
    /\ \E response \in Responses :
          /\ confirm' = response
          /\ IF Declined(response)
             THEN Exit(status, Msg("Deletion canceled", 0)) /\ UNCHANGED <<count, k>>
             ELSE /\ count' = 0
                  /\ k' = 0
                  /\ pc' = "delete_loop"
                  /\ UNCHANGED <<exitCode, out>>
    /\ UNCHANGED <<args, config, api, target_date, pulled, photos_to_delete, total,
                   disk, history, loginCalls, codePrompts, prompts, log>>

\* a declined confirmation treated as an error
ConfirmDeclineFails == Answer(1)

Confirm == Answer(0)

DeleteOutcomes == {"ok", "delete_failed"}

\* one iteration of `for photo in photos_to_delete`; reprompt asks again
\* before the item
DeleteItem(reprompt) ==
    /\ pc = "delete_loop"
    /\ k < Len(photos_to_delete)
    /\ k' = k + 1
    /\ prompts' = IF reprompt THEN prompts + 1 ELSE prompts
    /\ \E outcome \in DeleteOutcomes :
          /\ log' = Append(log, [item |-> photos_to_delete[k + 1], outcome |-> outcome])
          /\ count' = Counted(count, outcome)
    /\ UNCHANGED <<args, pc, exitCode, out, config, api, target_date, pulled,
                   photos_to_delete, total, confirm, disk, history, loginCalls, codePrompts>>

DeleteStepAsking == DeleteItem(TRUE)

DeleteStep == DeleteItem(FALSE)

DeleteEnd ==
    /\ pc = "delete_loop"
    /\ k = Len(photos_to_delete)
    /\ Exit(0, Msg("Deleted", count))
    /\ UNCHANGED <<args, locals, disk, history, loginCalls, codePrompts, prompts, log>>

\* ------------------------------------------------------------- invocations
\* the script is started again with the same arguments after a completed run;
\* the output directory is what the earlier run left
Rerun ==
    /\ pc = "exit"
    /\ exitCode = 0
    /\ run < MaxRuns
    /\ run' = run + 1
    /\ prevLog' = log
    /\ prevFiles' = files
    /\ pc' = "main"
    /\ exitCode' = -1
    /\ out' = <<>>
    /\ config' = NoConfig
    /\ api' = NoSession
    /\ target_date' = NoDate
    /\ pulled' = 0
    /\ photos_to_delete' = <<>>
    /\ total' = 0
    /\ count' = 0
    /\ k' = 0
    /\ confirm' = NoResponse
    /\ loginCalls' = 0
    /\ codePrompts' = 0
    /\ prompts' = 0
    /\ log' = <<>>
    /\ UNCHANGED <<args, disk>>

Next ==
    \/ ParseArgs
    \/ LoadConfig
    \/ LoginConnect
    \/ LoginCode
    \/ ParseDate
    \/ DownloadPrepare
    \/ DownloadStep
    \/ DownloadEnd
    \/ DeleteBegin
    \/ DeleteScanStep
    \/ DeleteScanEnd
    \/ Confirm
    \/ DeleteStep
    \/ DeleteEnd
    \/ Rerun

Spec == Init /\ [][Next]_vars

\* ================================================================= claims
\* Vocabulary of the properties, defined apart from the operators the
\* actions use.

\* days on a scale on which later dates have larger numbers
DayNumber(d) == d[1] * 372 + d[2] * 31 + d[3]

OnOrBefore(photo, cutoff) ==
    /\ photo.created.kind = "datetime"
    /\ DayNumber(photo.created.date) <= DayNumber(cutoff)

Matching == {i \in 1..Len(library) : OnOrBefore(library[i], target_date)}

Range(s) == {s[j] : j \in 1..Len(s)}

Acted == {log[j].item : j \in 1..Len(log)}

Failures == {j \in 1..Len(log) : log[j].outcome # "ok"}

IsYes(r) ==
    /\ Len(r) = 3
    /\ r[1] \in {"y", "Y"}
    /\ r[2] \in {"e", "E"}
    /\ r[3] \in {"s", "S"}

Printed(m) == \E j \in 1..Len(out) : out[j].msg = m

LastLine == IF out = <<>> THEN Msg("", 0) ELSE out[Len(out)]

PipelineEntered == target_date # NoDate

Completed == pc = "exit" /\ exitCode = 0

\* C1: in a delete run, delete() is called only after a response that is
\* "yes" up to case; after any other response no delete() is ever called and
\* the run has ended with the cancellation message.
C1_ConfirmationGate ==
    command = "delete" =>
        /\ log # <<>> => IsYes(confirm)
        /\ (confirm # NoResponse /\ ~IsYes(confirm)) =>
               /\ log = <<>>
               /\ pc = "exit"
               /\ LastLine = Msg("Deletion canceled", 0)

C1_Witness ==
    /\ command = "delete"
    /\ pc = "exit"
    /\ confirm = <<"y">>
    /\ total >= 1
    /\ log = <<>>

\* C2: among the items enumerated so far, download acts on, and delete
\* collects, exactly those whose creation date is readable and on or before
\* the cutoff; a confirmed delete run that completes has called delete() on
\* exactly those; every completed run has enumerated the whole library.
C2_Selection ==
    /\ command = "download" =>
           Acted = {i \in 1..pulled : OnOrBefore(library[i], target_date)}
    /\ command = "delete" =>
           /\ Range(photos_to_delete) = {i \in 1..pulled : OnOrBefore(library[i], target_date)}
           /\ (Completed /\ IsYes(confirm)) => Acted = Matching
    /\ (Completed /\ command # "none") => pulled = Len(library)

C2_Witness ==
    /\ command = "download"
    /\ Completed
    /\ \E i \in Acted : library[i].created.date = target_date
    /\ \E i \in 1..Len(library) : library[i].created.kind # "datetime" /\ i < Len(library)

\* C3: a delete run never shows the confirmation prompt more than once, and
\* has shown it exactly once from the end of the scan on, however many items
\* matched.
C3_OnePrompt ==
    /\ prompts <= 1
    /\ (command = "delete" /\ (pc \in {"confirm", "delete_loop"} \/ Completed)) => prompts = 1

C3_Witness ==
    /\ command = "delete"
    /\ Completed
    /\ Len(log) >= 2
    /\ prompts = 1

\* C4: a completed download run, or confirmed delete run, has attempted the
\* action on each of the N matching items once, in enumeration order, and
\* reports N minus the number of failed attempts.
C4_PartialFailure ==
    (Completed /\ (command = "download" \/ (command = "delete" /\ IsYes(confirm)))) =>
        /\ Len(log) = Cardinality(Matching)
        /\ Acted = Matching
        /\ \A i, j \in 1..Len(log) : i < j => log[i].item < log[j].item
        /\ count = Cardinality(Matching) - Cardinality(Failures)
        /\ LastLine.n = Cardinality(Matching) - Cardinality(Failures)

C4_Witness ==
    /\ Completed
    /\ Len(log) >= 2
    /\ log[1].outcome # "ok"
    /\ log[2].outcome = "ok"
    /\ count = 1

\* C5 as stated: with an unparsable --date no login call and no second-factor
\* prompt happens.
C5_NoLoginOnBadDate ==
    dateArg \in InvalidDateArgs => loginCalls = 0 /\ codePrompts = 0

\* C5 amended: with an unparsable --date no item is enumerated, downloaded or
\* deleted and no confirmation is asked, and the run exits non-zero; the date
\* error is printed only after login has returned, and is printed whenever
\* login has returned.
C5_BadDateStopsAfterLogin ==
    dateArg \in InvalidDateArgs =>
        /\ pulled = 0 /\ log = <<>> /\ photos_to_delete = <<>> /\ prompts = 0
        /\ files = {}
        /\ ~PipelineEntered
        /\ pc = "exit" => exitCode = 1
        /\ Printed("Invalid date format") => loginCalls = 1 /\ api = Trusted
        /\ (pc = "exit" /\ api = Trusted) => Printed("Invalid date format")

C5_Witness ==
    /\ dateArg \in InvalidDateArgs
    /\ pc = "exit"
    /\ Printed("Invalid date format")
    /\ loginCalls = 1
    /\ codePrompts = 1

\* C6 as stated: with no remote items a delete run asks no confirmation.
C6_EmptySkipsPrompt ==
    (command = "delete" /\ library = <<>>) => prompts = 0 /\ confirm = NoResponse

\* C6 amended: with no remote items a delete run reports a count of 0 and
\* still shows the confirmation prompt once; whatever the answer, no delete()
\* is called and the run exits 0.
C6_EmptyStillPrompts ==
    (command = "delete" /\ library = <<>> /\ PipelineEntered /\ pc \notin {"delete_photos", "delete_scan"}) =>
        /\ Printed("Found") /\ total = 0
        /\ \A j \in 1..Len(out) : out[j].msg = "Found" => out[j].n = 0
        /\ prompts = 1
        /\ log = <<>>
        /\ pc = "exit" => exitCode = 0 /\ confirm # NoResponse

C6_Witness ==
    /\ command = "delete"
    /\ library = <<>>
    /\ Completed
    /\ prompts = 1
    /\ IsYes(confirm)
    /\ LastLine = Msg("Deleted", 0)

\* C7: while a required challenge is not validated the process is either at
\* the code prompt or has exited non-zero with the verification error,
\* without enumerating, downloading or deleting anything; enumeration and the
\* steps after it happen only with a session that login returned free of any
\* outstanding challenge.
C7_SecondFactorGate ==
    /\ ((api.requires_2fa \/ api.requires_2sa) /\ pc # "login_code") =>
           /\ pc = "exit"
           /\ exitCode = 1
           /\ LastLine.msg \in {"Failed to verify the 2FA code", "Failed to verify the 2SA code"}
           /\ pulled = 0 /\ log = <<>> /\ photos_to_delete = <<>> /\ files = prevFiles
    /\ (pulled > 0 \/ log # <<>> \/ PipelineEntered) =>
           api = Trusted /\ loginCalls = 1

C7_Witness ==
    /\ pc = "exit"
    /\ api.requires_2fa
    /\ exitCode = 1
    /\ Len(library) >= 1
    /\ command = "delete"

\* C8: a run that got past the date parsing and has ended has exit status 0,
\* whether the delete was declined or items failed.
C8_ExitStatus ==
    (pc = "exit" /\ PipelineEntered) => exitCode = 0

C8_Witness ==
    /\ command = "delete"
    /\ pc = "exit"
    /\ exitCode = 0
    /\ confirm = <<"n", "o">>
    /\ total >= 1
    /\ \E i \in 1..Len(library) : library[i].created.kind = "malformed"

\* C9: a download run that follows a completed download run with the same
\* arguments over the same library ends with exit status 0, keeps every file
\* the earlier run left, stores nothing under a name that is not a selected
\* item's, and, when each download responds as it did in the earlier run,
\* leaves exactly the earlier run's set of files.
C9_DownloadIdempotent ==
    (command = "download" /\ run >= 2 /\ pc = "exit" /\ PipelineEntered) =>
        /\ exitCode = 0
        /\ prevFiles \subseteq files
        /\ files \subseteq {<<OutputDir, library[i].filename>> : i \in Matching}
        /\ log = prevLog => files = prevFiles

C9_Witness ==
    /\ command = "download"
    /\ run = 2
    /\ Completed
    /\ log = prevLog
    /\ Len(log) >= 2
    /\ Cardinality(files) = 1
    /\ files = prevFiles

\* C10: in a delete run, once delete() has been called the enumeration is
\* exhausted, the count of the whole selection has been printed, the single
\* prompt was answered "yes" and every item acted on is in the selection; and
\* from the first delete() on no item is pulled and the selection is fixed.
C10_Materialized ==
    /\ [](command = "delete" /\ log # <<>> =>
            /\ pulled = Len(library)
            /\ Range(photos_to_delete) = Matching
            /\ total = Cardinality(Matching)
            /\ \E j \in 1..Len(out) : out[j] = Msg("Found", total)
            /\ prompts = 1
            /\ IsYes(confirm)
            /\ Acted \subseteq Range(photos_to_delete))
    /\ [][(command = "delete" /\ log # <<>> /\ run' = run) =>
            (pulled' = pulled /\ photos_to_delete' = photos_to_delete)]_vars

C10_Witness ==
    /\ command = "delete"
    /\ pc = "delete_loop"
    /\ Len(log) = 1
    /\ Len(photos_to_delete) >= 2
    /\ pulled = Len(library)

====
